---- MODULE Spec2Model ----
(***************************************************************************)
(* A model of to_do_bot.py: the Memo and MemoList classes, the handlers   *)
(* the dispatcher runs one at a time (start, add, complete, list_memo,    *)
(* timed) and the reminder callback (remind) the job queue runs on its    *)
(* own thread, concurrently with the handlers.                            *)
(*                                                                         *)
(* Objects are held in heaps, because the code shares them by reference:  *)
(* memoObj holds every Memo ever constructed (a Memo is named by its      *)
(* position), lists every MemoList ever constructed (a sequence of Memo   *)
(* references), chat_data["memos"] and each job's context["memos"] name a *)
(* MemoList.                                                              *)
(*                                                                         *)
(* Strings are sequences of one-character strings, so that str(), int()   *)
(* and " ".join() are computed and not assumed.                           *)
(***************************************************************************)
EXTENDS Integers, Sequences, FiniteSets, TLC

(***************************************************************************)
(* Bounds of the model.                                                    *)
(***************************************************************************)
\* The first message id the transport hands out; ids grow from there.
FirstMsgId == 9
\* How many messages the transport sends in one run.
MaxMsg == 3
\* How many Memo objects are constructed in one run.
MaxMemos == 2
\* How many MemoList objects are constructed in one run.
MaxLists == 2
\* How many jobs are handed to the job queue in one run: each comes with a Memo of its own.
MaxJobs == MaxMemos
\* How many message ids the Memos record in all when MemoList is called directly.
MaxRecorded == 4
\* How many messages the transport sends in one run of the listing on its own.
MaxView == 4

VARIABLES
    memoObj,    \* heap of Memo objects: [id, messages, text]
    lists,      \* heap of MemoList objects: each its memos, a sequence of Memo references
    chat_data,  \* the conversation's chat_data: [has |-> "memos" in chat_data, memos |-> its MemoList]
    msgs,       \* the transport: message id -> [text, keyboard, struck]
    jobs,       \* the job queue: every job ever registered, with the state of its callback
    handler,    \* the dispatcher thread: the handler it runs and that handler's locals
    count       \* per MemoList: add_memo calls made and remove calls that returned

vars == <<memoObj, lists, chat_data, msgs, jobs, handler, count>>

(***************************************************************************)
(* Strings.                                                                *)
(***************************************************************************)
Digits == <<"0", "1", "2", "3", "4", "5", "6", "7", "8", "9">>

RECURSIVE StrNat(_)
StrNat(n) == IF n < 10 THEN <<Digits[n + 1]>>
             ELSE StrNat(n \div 10) \o <<Digits[(n % 10) + 1]>>

\* str(message_id) of an int
Str(n) == IF n < 0 THEN <<"-">> \o StrNat(-n) ELSE StrNat(n)

IsDigit(c) == \E d \in 1..10 : Digits[d] = c

DigitVal(c) == (CHOOSE d \in 1..10 : Digits[d] = c) - 1

RECURSIVE NatVal(_)
NatVal(s) == IF Len(s) = 0 THEN 0
             ELSE NatVal(SubSeq(s, 1, Len(s) - 1)) * 10 + DigitVal(s[Len(s)])

\* int(s) of a command argument: an optional sign and decimal digits, or ValueError
ParseInt(s) ==
    LET body == IF Len(s) > 0 /\ s[1] \in {"-", "+"} THEN Tail(s) ELSE s
        neg  == Len(s) > 0 /\ s[1] = "-"
    IN  IF Len(body) > 0 /\ \A k \in 1..Len(body) : IsDigit(body[k])
        THEN [ok |-> TRUE, val |-> IF neg THEN -NatVal(body) ELSE NatVal(body)]
        ELSE [ok |-> FALSE, val |-> 0]

\* " ".join(args)
RECURSIVE Join(_)
Join(args) == IF Len(args) = 0 THEN <<>>
              ELSE IF Len(args) = 1 THEN args[1]
              ELSE args[1] \o <<" ">> \o Join(Tail(args))

\* x in s, for a Python list s
Contains(s, x) == \E k \in 1..Len(s) : s[k] = x

\* s with its k-th element removed
RemoveAt(s, k) == SubSeq(s, 1, k - 1) \o SubSeq(s, k + 1, Len(s))

(***************************************************************************)
(* Memo.                                                                   *)
(***************************************************************************)
\* Memo.__init__
Memo(message_id, text) ==
    [id |-> Str(message_id), messages |-> <<message_id>>, text |-> text]

\* update that puts the new id first (insert(0, message_id))
UpdateFirst(memo, message_id) ==
    [memo EXCEPT !.messages = <<message_id>> \o @]

\* update that assigns where it should append (self.messages = [message_id])
UpdateReplace(memo, message_id) ==
    [memo EXCEPT !.messages = <<message_id>>]

\* Memo.update on the Memo object memo
update(memo, message_id) ==
    [memo EXCEPT !.messages = Append(@, message_id)]

\* messages as one list shared by every Memo (a class attribute): update reaches them all
HeapUpdateShared(heap, h, message_id) ==
    [k \in 1..Len(heap) |-> update(heap[k], message_id)]

\* the heap after memo.update(message_id) on the Memo referenced by h
HeapUpdate(heap, h, message_id) ==
    [heap EXCEPT ![h] = update(@, message_id)]

(***************************************************************************)
(* MemoList. memos is the list's sequence of Memo references, heap the    *)
(* Memo objects. A result is [exc, val]: exc is "none" or the exception.  *)
(***************************************************************************)
\* the position of the first memo whose messages contain message_id, 0 if none
FirstMatch(memos, heap, message_id) ==
    IF \E k \in 1..Len(memos) : Contains(heap[memos[k]].messages, message_id)
    THEN CHOOSE k \in 1..Len(memos) :
            /\ Contains(heap[memos[k]].messages, message_id)
            /\ \A k2 \in 1..(k - 1) : ~Contains(heap[memos[k2]].messages, message_id)
    ELSE 0

\* get that returns the first memo of a list that has one, whatever its messages
GetFirst(memos, heap, message_id) ==
    IF Len(memos) > 0
    THEN [exc |-> "none", val |-> memos[1]]
    ELSE [exc |-> "IndexError", val |-> 0]

\* get that returns None where it should raise
GetNone(memos, heap, message_id) ==
    IF FirstMatch(memos, heap, message_id) # 0
    THEN [exc |-> "none", val |-> memos[FirstMatch(memos, heap, message_id)]]
    ELSE [exc |-> "none", val |-> 0]

\* MemoList.get: the Memo reference, or IndexError
get(memos, heap, message_id) ==
    IF Len(memos) > 0
    THEN IF FirstMatch(memos, heap, message_id) # 0
         THEN [exc |-> "none", val |-> memos[FirstMatch(memos, heap, message_id)]]
         ELSE [exc |-> "IndexError", val |-> 0]
    ELSE [exc |-> "IndexError", val |-> 0]

\* remove without its return: the memo is removed, the loop ends and IndexError is raised
RemoveNoReturn(memos, heap, message_id) ==
    IF FirstMatch(memos, heap, message_id) # 0
    THEN [exc |-> "IndexError", val |-> RemoveAt(memos, FirstMatch(memos, heap, message_id))]
    ELSE [exc |-> "IndexError", val |-> memos]

\* the position of the last memo whose messages contain message_id, 0 if none
LastMatch(memos, heap, message_id) ==
    IF \E k \in 1..Len(memos) : Contains(heap[memos[k]].messages, message_id)
    THEN CHOOSE k \in 1..Len(memos) :
            /\ Contains(heap[memos[k]].messages, message_id)
            /\ \A k2 \in (k + 1)..Len(memos) : ~Contains(heap[memos[k2]].messages, message_id)
    ELSE 0

\* remove that scans the list from its end (for memo in reversed(self.memos))
RemoveLastMatch(memos, heap, message_id) ==
    IF LastMatch(memos, heap, message_id) # 0
    THEN [exc |-> "none", val |-> RemoveAt(memos, LastMatch(memos, heap, message_id))]
    ELSE [exc |-> "IndexError", val |-> memos]

\* MemoList.remove: the list's memos afterwards, and IndexError when it raised
remove(memos, heap, message_id) ==
    IF Len(memos) = 0
    THEN [exc |-> "IndexError", val |-> memos]
    ELSE IF FirstMatch(memos, heap, message_id) # 0
         THEN [exc |-> "none", val |-> RemoveAt(memos, FirstMatch(memos, heap, message_id))]
         ELSE [exc |-> "IndexError", val |-> memos]

\* MemoList.__len__
len(memos) == Len(memos)

\* __getitem__ that takes key for a position counted from 1 (self.memos[key + 1])
GetItemFromOne(memos, key) ==
    IF key + 1 >= Len(memos) THEN [exc |-> "IndexError", val |-> 0]
    ELSE IF key + 1 >= 0 THEN [exc |-> "none", val |-> memos[key + 2]]
    ELSE IF Len(memos) + key + 1 >= 0 THEN [exc |-> "none", val |-> memos[Len(memos) + key + 2]]
    ELSE [exc |-> "IndexError", val |-> 0]

\* MemoList.__getitem__: key is a Python index (from 0; a negative key counts from the end)
getitem(memos, key) ==
    IF key >= Len(memos) THEN [exc |-> "IndexError", val |-> 0]
    ELSE IF key >= 0 THEN [exc |-> "none", val |-> memos[key + 1]]
    ELSE IF Len(memos) + key >= 0 THEN [exc |-> "none", val |-> memos[Len(memos) + key + 1]]
    ELSE [exc |-> "IndexError", val |-> 0]

\* MemoList.add_memo: the heap and the list's memos afterwards, and the id returned
add_memo(memos, heap, message_id, text) ==
    [heap  |-> Append(heap, Memo(message_id, text)),
     memos |-> Append(memos, Len(heap) + 1),
     ret   |-> Memo(message_id, text).id]

(***************************************************************************)
(* The messaging transport. msgs holds the messages sent with the button  *)
(* (reply_markup=keyboard), the ones that display a memo; the transport   *)
(* numbers them from FirstMsgId upwards, so every id it returns is fresh. *)
(* A reply sent without the button (the help text, a corrective reply,    *)
(* the notice of an empty list) displays no memo and can trigger nothing: *)
(* it is not kept.                                                        *)
(***************************************************************************)
\* the id the next message sent will get
NewId == FirstMsgId + Len(msgs)

MsgIds == {FirstMsgId + k - 1 : k \in 1..Len(msgs)}

Msg(id) == msgs[id - FirstMsgId + 1]

CanSend == Len(msgs) < MaxMsg

\* reply_text / send_message with reply_markup=keyboard: the transport after sending text
Send(text) ==
    Append(msgs, [text |-> text, struck |-> FALSE])

\* edit_message_text that succeeds: the message is struck through
Edit(id) ==
    [msgs EXCEPT ![id - FirstMsgId + 1] = [@ EXCEPT !.struck = TRUE]]

\* pref in timed: f"... {due/60} ...\n"; due/60 is a float, and due a multiple of 60
Pref(due) == <<"R">> \o Str(due \div 60) \o <<".", "0", "\n">>

(***************************************************************************)
(* Inputs.                                                                 *)
(***************************************************************************)
\* the texts of plain messages
Texts == {<<"a">>}

\* the argument lists of /timed commands
ArgLists ==
    { <<>>,
      << <<"2">> >>,
      << <<"a">>, <<"b">> >>,
      << <<"2">>, <<"a">>, <<"b">> >>,
      << <<"0">>, <<"a">> >>,
      << <<"-", "1", "0">>, <<"a">> >>,
      << <<"2", ".", "5">>, <<"a">> >> }

\* the message ids a button press can carry (update.effective_message.message_id)
PressIds == FirstMsgId..(FirstMsgId + MaxMsg - 1)

(***************************************************************************)
(* The dispatcher thread. It runs one handler at a time: handler.pc is    *)
(* "idle" between handlers (after a return and after a raise alike: the   *)
(* dispatcher logs the exception and takes the next update), and a place  *)
(* inside complete or list_memo otherwise. len0 is not in the source: it  *)
(* is the size of the list when complete began.                           *)
(***************************************************************************)
NoHandler ==
    [pc |-> "idle", op |-> "none", message_id |-> 0, memo |-> 0, memos |-> 0,
     i |-> 0, message |-> 0, len0 |-> 0]

Ready == handler.pc = "idle"

ZeroCount == [add |-> 0, remove |-> 0]

\* init_check: chat_data and the heap of lists afterwards
init_check(cd, ls) ==
    IF ~cd.has
    THEN [chat_data |-> [has |-> TRUE, memos |-> Len(ls) + 1], lists |-> Append(ls, <<>>)]
    ELSE [chat_data |-> cd, lists |-> ls]

\* init_check can construct the MemoList it needs
CanInit == chat_data.has \/ Len(lists) < MaxLists

CountInit == IF chat_data.has THEN count ELSE Append(count, ZeroCount)

\* start (its reply has no button)
start ==
    /\ Ready
    /\ Len(lists) < MaxLists
    /\ lists' = Append(lists, <<>>)
    /\ count' = Append(count, ZeroCount)
    /\ chat_data' = [has |-> TRUE, memos |-> Len(lists) + 1]
    /\ handler' = NoHandler
    /\ UNCHANGED <<memoObj, msgs, jobs>>

\* add, for a plain message with this text
add(text) ==
    /\ Ready
    /\ CanInit
    /\ CanSend
    /\ Len(memoObj) < MaxMemos
    /\ LET ic == init_check(chat_data, lists)
           l == ic.chat_data.memos
           message_id == NewId
           sent == Send(text)
           r == add_memo(ic.lists[l], memoObj, message_id, sent[Len(sent)].text)
       IN  /\ chat_data' = ic.chat_data
           /\ msgs' = sent
           /\ memoObj' = r.heap
           /\ lists' = [ic.lists EXCEPT ![l] = r.memos]
           /\ count' = [CountInit EXCEPT ![l].add = @ + 1]
    /\ handler' = NoHandler
    /\ UNCHANGED jobs

(***************************************************************************)
(* The job queue. A job is the record run_once registers, with the state  *)
(* of the scheduler's timer (st: "scheduled", "fired" or "canceled") and  *)
(* the place and locals of its callback remind (pc, i, memo, message,     *)
(* exc). A job is in the queue while it is "scheduled".                   *)
(***************************************************************************)
\* a repeating job (run_repeating): it stays in the queue after its timer has triggered
AfterTriggerRepeating == "scheduled"

\* what run_once leaves of a job once its timer has triggered the callback
AfterTrigger == "fired"

\* job_queue.run_once(remind, due, context=job_context, name=name)
run_once(js, due, job_context, name) ==
    Append(js, [name |-> name, due |-> due, context |-> job_context,
                st |-> "scheduled", pc |-> "wait", i |-> 0, memo |-> 0,
                message |-> 0, exc |-> "none"])

\* get_jobs_by_name: the jobs in the queue under this name
get_jobs_by_name(js, name) ==
    {j \in 1..Len(js) : js[j].st = "scheduled" /\ js[j].name = name}

\* remove_reminder that finds the jobs and leaves them in the queue
RemoveReminderKeeps(js, name) ==
    [jobs |-> js, ret |-> get_jobs_by_name(js, name) # {}]

\* remove_reminder without its test of current_jobs: the loop runs over what was found,
\* which may be nothing, and True is returned
RemoveReminderTrue(js, name) ==
    [jobs |-> [j \in 1..Len(js) |->
                 IF j \in get_jobs_by_name(js, name)
                 THEN [js[j] EXCEPT !.st = "canceled"]
                 ELSE js[j]],
     ret |-> TRUE]

\* remove_reminder: the job queue afterwards and the value returned
remove_reminder(js, name) ==
    IF get_jobs_by_name(js, name) = {}
    THEN [jobs |-> js, ret |-> FALSE]
    ELSE [jobs |-> [j \in 1..Len(js) |->
                      IF j \in get_jobs_by_name(js, name)
                      THEN [js[j] EXCEPT !.st = "canceled"]
                      ELSE js[j]],
          ret |-> TRUE]

\* due left in minutes
DueMinutes(n) == n

\* the value of due in timed
Due(n) == n * 60

\* the argument count checked against 1 and not 2 (len(args) < 1)
TimedCheckOneArg(args) ==
    IF Len(args) < 1 THEN "usage"
    ELSE IF ~ParseInt(args[1]).ok THEN "usage"
    ELSE IF Due(ParseInt(args[1]).val) <= 0 THEN "past"
    ELSE "memo"

\* the delay checked with due < 0 and not due <= 0
TimedCheckZero(args) ==
    IF Len(args) < 2 THEN "usage"
    ELSE IF ~ParseInt(args[1]).ok THEN "usage"
    ELSE IF Due(ParseInt(args[1]).val) < 0 THEN "past"
    ELSE "memo"

\* the checks of timed on its arguments, as the reply they end in: "usage" is the
\* corrective reply of a malformed command, "past" the one of a delay that is not
\* positive, after either of which timed returns; "memo" is the memo's own message
timed_check(args) ==
    IF Len(args) < 2 THEN "usage"
    ELSE IF ~ParseInt(args[1]).ok THEN "usage"
    ELSE IF Due(ParseInt(args[1]).val) <= 0 THEN "past"
    ELSE "memo"

\* timed, for a /timed command with these arguments (a corrective reply has no button)
timed(args) ==
    /\ Ready
    /\ CanInit
    /\ LET ic == init_check(chat_data, lists)
           l == ic.chat_data.memos
           parsed == ParseInt(args[1])
           due == Due(parsed.val)
           text == Join(Tail(args))
           sent == Send(Pref(due) \o text)
           message_id == NewId
           r == add_memo(ic.lists[l], memoObj, message_id, text)
           job_context == [text |-> text, message_id |-> message_id, memos |-> l]
       IN  /\ chat_data' = ic.chat_data
           /\ IF timed_check(args) # "memo"
              THEN /\ lists' = ic.lists
                   /\ count' = CountInit
                   /\ UNCHANGED <<memoObj, msgs, jobs>>
              ELSE /\ CanSend
                   /\ Len(memoObj) < MaxMemos
                   /\ Len(jobs) < MaxJobs
                   /\ msgs' = sent
                   /\ memoObj' = r.heap
                   /\ lists' = [ic.lists EXCEPT ![l] = r.memos]
                   /\ count' = [CountInit EXCEPT ![l].add = @ + 1]
                   /\ jobs' = run_once(jobs, due, job_context, r.ret)
    /\ handler' = NoHandler

\* list_memo up to its loop, or to its end when there is no memo
list_memo ==
    /\ Ready
    /\ CanInit
    /\ LET ic == init_check(chat_data, lists)
           l == ic.chat_data.memos
       IN  /\ chat_data' = ic.chat_data
           /\ lists' = ic.lists
           /\ count' = CountInit
           /\ IF len(ic.lists[l]) > 0
              THEN handler' = [NoHandler EXCEPT !.pc = "list_send", !.op = "list_memo",
                                                !.memos = l, !.i = 0]
              ELSE handler' = NoHandler
    /\ UNCHANGED <<memoObj, msgs, jobs>>

\* list_memo: the loop takes its next memo (memos[i]) and sends it, or ends; cap is how
\* many messages the transport sends in a run
list_send(cap) ==
    /\ handler.pc = "list_send"
    /\ LET r == getitem(lists[handler.memos], handler.i)
       IN  IF r.exc = "IndexError"
           THEN /\ handler' = NoHandler
                /\ UNCHANGED msgs
           ELSE /\ Len(msgs) < cap
                /\ msgs' = Send(memoObj[r.val].text)
                /\ handler' = [handler EXCEPT !.pc = "list_update", !.memo = r.val,
                                              !.message = NewId]
    /\ UNCHANGED <<memoObj, lists, chat_data, jobs, count>>

\* list_memo: memo.update(message.message_id)
list_update ==
    /\ handler.pc = "list_update"
    /\ memoObj' = HeapUpdate(memoObj, handler.memo, handler.message)
    /\ handler' = [handler EXCEPT !.pc = "list_send", !.i = @ + 1]
    /\ UNCHANGED <<lists, chat_data, msgs, jobs, count>>

\* context.chat_data["memos"].get(message_id) in complete, which calls no init_check:
\* KeyError when chat_data has no "memos"
complete_get(cd, ls, heap, message_id) ==
    IF ~cd.has
    THEN [exc |-> "KeyError", val |-> 0]
    ELSE get(ls[cd.memos], heap, message_id)

\* complete, for a press of the button of message message_id (a message of this run, or
\* one the bot sent before it lost its chat_data): up to its loop, or to the KeyError or
\* IndexError of its lookup
complete(message_id) ==
    /\ Ready
    /\ LET r == complete_get(chat_data, lists, memoObj, message_id)
       IN  IF r.exc # "none"
           THEN handler' = NoHandler
           ELSE handler' = [NoHandler EXCEPT !.pc = "complete_edit", !.op = "complete",
                                             !.message_id = message_id, !.memo = r.val,
                                             !.i = 0,
                                             !.len0 = len(lists[chat_data.memos])]
    /\ UNCHANGED <<memoObj, lists, chat_data, msgs, jobs, count>>

\* complete: edit_message_text on the next of memo.messages; ok is whether the transport
\* carries the edit out or raises, which ends the handler
complete_edit(ok) ==
    /\ handler.pc = "complete_edit"
    /\ handler.i < Len(memoObj[handler.memo].messages)
    /\ LET message == memoObj[handler.memo].messages[handler.i + 1]
       IN  IF ok
           THEN /\ msgs' = Edit(message)
                /\ handler' = [handler EXCEPT !.i = @ + 1]
           ELSE /\ handler' = NoHandler
                /\ UNCHANGED msgs
    /\ UNCHANGED <<memoObj, lists, chat_data, jobs, count>>

\* complete: the loop has ended; context.chat_data["memos"].remove(message_id)
complete_remove ==
    /\ handler.pc = "complete_edit"
    /\ handler.i >= Len(memoObj[handler.memo].messages)
    /\ LET l == chat_data.memos
           r == remove(lists[l], memoObj, handler.message_id)
       IN  /\ lists' = [lists EXCEPT ![l] = r.val]
           /\ IF r.exc # "none"
              THEN /\ handler' = NoHandler
                   /\ UNCHANGED count
              ELSE /\ count' = [count EXCEPT ![l].remove = @ + 1]
                   /\ handler' = [handler EXCEPT !.pc = "complete_cancel"]
    /\ UNCHANGED <<memoObj, chat_data, msgs, jobs>>

\* complete: remove_reminder(memo.id, context), and the handler returns
complete_cancel ==
    /\ handler.pc = "complete_cancel"
    /\ jobs' = remove_reminder(jobs, memoObj[handler.memo].id).jobs
    /\ handler' = NoHandler
    /\ UNCHANGED <<memoObj, lists, chat_data, msgs, count>>

(***************************************************************************)
(* The reminder callback. The job queue runs it on its own thread, so its *)
(* steps interleave with the dispatcher's. The scan of MemoList.get is    *)
(* taken one memo at a time here: the dispatcher may remove a memo from   *)
(* the list while the scan is under way, and the list iterator then goes  *)
(* on from its old position in the shortened list.                        *)
(***************************************************************************)
\* one iteration of the loop of MemoList.get at position i (from 0) of the list
get_step(memos, heap, message_id, i) ==
    IF i >= Len(memos)
    THEN [exc |-> "IndexError", found |-> FALSE, val |-> 0]
    ELSE IF Contains(heap[memos[i + 1]].messages, message_id)
         THEN [exc |-> "none", found |-> TRUE, val |-> memos[i + 1]]
         ELSE [exc |-> "none", found |-> FALSE, val |-> 0]

\* the timer of job j triggers: the job leaves the queue and its callback begins
trigger(j) ==
    /\ j \in 1..Len(jobs)
    /\ jobs[j].st = "scheduled"
    /\ jobs' = [jobs EXCEPT ![j] = [@ EXCEPT !.st = AfterTrigger, !.pc = "get", !.i = 0]]
    /\ UNCHANGED <<memoObj, lists, chat_data, msgs, handler, count>>

\* remind: job.context["memos"].get(job.context["message_id"]), one memo of the scan
remind_get(j) ==
    /\ j \in 1..Len(jobs)
    /\ jobs[j].pc = "get"
    /\ LET r == get_step(lists[jobs[j].context.memos], memoObj,
                         jobs[j].context.message_id, jobs[j].i)
       IN  jobs' = [jobs EXCEPT ![j] =
                      IF r.exc # "none" THEN [@ EXCEPT !.pc = "raised", !.exc = r.exc]
                      ELSE IF r.found THEN [@ EXCEPT !.pc = "send", !.memo = r.val]
                      ELSE [@ EXCEPT !.i = @ + 1]]
    /\ UNCHANGED <<memoObj, lists, chat_data, msgs, handler, count>>

\* remind: send_message(text=memo.text, reply_markup=keyboard)
remind_send(j) ==
    /\ j \in 1..Len(jobs)
    /\ jobs[j].pc = "send"
    /\ CanSend
    /\ msgs' = Send(memoObj[jobs[j].memo].text)
    /\ jobs' = [jobs EXCEPT ![j] = [@ EXCEPT !.pc = "update", !.message = NewId]]
    /\ UNCHANGED <<memoObj, lists, chat_data, handler, count>>

\* remind: memo.update(message.message_id), and the callback returns
remind_update(j) ==
    /\ j \in 1..Len(jobs)
    /\ jobs[j].pc = "update"
    /\ memoObj' = HeapUpdate(memoObj, jobs[j].memo, jobs[j].message)
    /\ jobs' = [jobs EXCEPT ![j] = [@ EXCEPT !.pc = "done"]]
    /\ UNCHANGED <<lists, chat_data, msgs, handler, count>>

remind(j) == remind_get(j) \/ remind_send(j) \/ remind_update(j)

(***************************************************************************)
(* The bot: the dispatcher's handlers and the job queue's callbacks.      *)
(***************************************************************************)
Init ==
    /\ memoObj = <<>>
    /\ lists = <<>>
    /\ chat_data = [has |-> FALSE, memos |-> 0]
    /\ msgs = <<>>
    /\ jobs = <<>>
    /\ handler = NoHandler
    /\ count = <<>>

Next ==
    \/ start
    \/ \E text \in Texts : add(text)
    \/ \E args \in ArgLists : timed(args)
    \/ list_memo
    \/ list_send(MaxMsg)
    \/ list_update
    \/ \E message_id \in PressIds : complete(message_id)
    \/ \E ok \in BOOLEAN : complete_edit(ok)
    \/ complete_remove
    \/ complete_cancel
    \/ \E j \in 1..MaxJobs : trigger(j)
    \/ \E j \in 1..MaxJobs : remind(j)

Spec == Init /\ [][Next]_vars

\* the job queue's timers run on: a job left in the queue is triggered in the end
Fairness == \A j \in 1..MaxJobs : WF_vars(trigger(j))

SpecFair == Spec /\ Fairness

(***************************************************************************)
(* MemoList on its own: one MemoList, and any caller of its methods and   *)
(* of Memo.update, with message ids and texts of the caller's choice (a   *)
(* caller may pass an id that some memo already records). get, indexing   *)
(* and len return a value and change nothing.                             *)
(***************************************************************************)
ApiIds == {FirstMsgId, FirstMsgId + 1, FirstMsgId + 2}

ApiTexts == {<<"a">>, <<"b">>}

\* the memos of the MemoList under test
TheList == lists[chat_data.memos]

\* how many message ids the Memo objects record in all
RECURSIVE Recorded(_)
Recorded(heap) ==
    IF Len(heap) = 0 THEN 0
    ELSE Len(heap[Len(heap)].messages) + Recorded(SubSeq(heap, 1, Len(heap) - 1))

InitList ==
    /\ memoObj = <<>>
    /\ lists = << <<>> >>
    /\ chat_data = [has |-> TRUE, memos |-> 1]
    /\ msgs = <<>>
    /\ jobs = <<>>
    /\ handler = NoHandler
    /\ count = <<ZeroCount>>

\* memos.add_memo(message_id, text)
ApiAddMemo(message_id, text) ==
    /\ Len(memoObj) < MaxMemos
    /\ Recorded(memoObj) < MaxRecorded
    /\ LET r == add_memo(TheList, memoObj, message_id, text)
       IN  /\ memoObj' = r.heap
           /\ lists' = [lists EXCEPT ![chat_data.memos] = r.memos]
           /\ count' = [count EXCEPT ![chat_data.memos].add = @ + 1]
    /\ UNCHANGED <<chat_data, msgs, jobs, handler>>

\* memos.remove(message_id)
ApiRemove(message_id) ==
    /\ LET r == remove(TheList, memoObj, message_id)
       IN  /\ lists' = [lists EXCEPT ![chat_data.memos] = r.val]
           /\ IF r.exc # "none"
              THEN UNCHANGED count
              ELSE count' = [count EXCEPT ![chat_data.memos].remove = @ + 1]
    /\ UNCHANGED <<memoObj, chat_data, msgs, jobs, handler>>

\* memos.get(message_id)
ApiGet(message_id) ==
    /\ get(TheList, memoObj, message_id).exc \in {"none", "IndexError"}
    /\ UNCHANGED vars

\* memos[key]
ApiGetItem(key) ==
    /\ getitem(TheList, key).exc \in {"none", "IndexError"}
    /\ UNCHANGED vars

\* len(memos)
ApiLen ==
    /\ len(TheList) >= 0
    /\ UNCHANGED vars

\* memo.update(message_id) on the Memo object h, in the list or removed from it
ApiUpdate(h, message_id) ==
    /\ h \in 1..Len(memoObj)
    /\ Recorded(memoObj) < MaxRecorded
    /\ memoObj' = HeapUpdate(memoObj, h, message_id)
    /\ UNCHANGED <<lists, chat_data, msgs, jobs, handler, count>>

NextList ==
    \/ \E message_id \in ApiIds, text \in ApiTexts : ApiAddMemo(message_id, text)
    \/ \E message_id \in ApiIds : ApiRemove(message_id)
    \/ \E message_id \in ApiIds : ApiGet(message_id)
    \/ \E key \in -1..MaxMemos : ApiGetItem(key)
    \/ ApiLen
    \/ \E h \in 1..MaxMemos, message_id \in ApiIds : ApiUpdate(h, message_id)

SpecList == InitList /\ [][NextList]_vars

(***************************************************************************)
(* The reminders on their own: timed and add commands, the job queue's    *)
(* timers and callbacks, and any caller of remove_reminder, with a name   *)
(* of the caller's choice and as often as it likes.                       *)
(***************************************************************************)
\* the names a caller passes: the string forms of the message ids
Names == {Str(m) : m \in FirstMsgId..(FirstMsgId + MaxMsg - 1)}

SchedArgLists == ArgLists \cup { << <<"1", "0">>, <<"b">> >> }

\* remove_reminder(name, context)
cancel(name) ==
    /\ Ready
    /\ jobs' = remove_reminder(jobs, name).jobs
    /\ UNCHANGED <<memoObj, lists, chat_data, msgs, handler, count>>

NextSched ==
    \/ \E text \in Texts : add(text)
    \/ \E args \in SchedArgLists : timed(args)
    \/ \E name \in Names : cancel(name)
    \/ \E j \in 1..MaxJobs : trigger(j)
    \/ \E j \in 1..MaxJobs : remind(j)

SpecSched == Init /\ [][NextSched]_vars

(***************************************************************************)
(* The listing on its own: add, timed and list commands of a conversation *)
(* and the job queue's timers and callbacks, with room for list_memo to   *)
(* show every memo once more.                                              *)
(***************************************************************************)
NextView ==
    \/ \E text \in Texts : add(text)
    \/ \E args \in ArgLists : timed(args)
    \/ list_memo
    \/ list_send(MaxView)
    \/ list_update
    \/ \E j \in 1..MaxJobs : trigger(j)
    \/ \E j \in 1..MaxJobs : remind(j)

SpecView == Init /\ [][NextView]_vars

(***************************************************************************)
(* Properties.                                                             *)
(***************************************************************************)
\* the message ids the Memo object h records
Displays(h) == {memoObj[h].messages[k] : k \in 1..Len(memoObj[h].messages)}

\* the Memo object h is in the list ms
InList(ms, h) == \E k \in 1..Len(ms) : ms[k] = h

\* C1: with fresh message ids from the transport, in every state the handlers and the
\* reminder callback reach, no message id is in the messages of two different memos of
\* a MemoList (the conversation's current one, and any it had before).
C1_UniqueDisplay ==
    \A l \in 1..Len(lists) :
        \A a, b \in 1..Len(lists[l]) :
            a # b => /\ lists[l][a] # lists[l][b]
                     /\ Displays(lists[l][a]) \cap Displays(lists[l][b]) = {}

\* two memos in the conversation's list, one of them displayed again
C1_Witness ==
    /\ chat_data.has
    /\ Len(lists[chat_data.memos]) >= 2
    /\ \E k \in 1..Len(lists[chat_data.memos]) :
          Len(memoObj[lists[chat_data.memos][k]].messages) >= 2

\* C2: when complete, triggered by a message id of some memo's display list, finishes,
\* the list is one shorter than when it began, get raises IndexError for every message
\* id of that memo, and no job named with the memo's id is left in the queue.
C2_CompleteRemoves ==
    [][complete_cancel =>
        LET h == handler.memo
            l == chat_data.memos
        IN  /\ Len(lists'[l]) = handler.len0 - 1
            /\ \A m \in {memoObj'[h].messages[k] : k \in 1..Len(memoObj'[h].messages)} :
                  get(lists'[l], memoObj', m).exc = "IndexError"
            /\ \A j \in 1..Len(jobs') :
                  jobs'[j].name = memoObj'[h].id => jobs'[j].st # "scheduled"]_vars

\* complete has finished for a timed memo with two displays: it is out of the list, both
\* messages are struck through and its job is canceled
C2_Witness ==
    /\ handler.pc = "idle"
    /\ chat_data.has
    /\ \E h \in 1..Len(memoObj) :
          /\ ~InList(lists[chat_data.memos], h)
          /\ Len(memoObj[h].messages) >= 2
          /\ \A m \in Displays(h) : Msg(m).struck
          /\ \E j \in 1..Len(jobs) : jobs[j].name = memoObj[h].id /\ jobs[j].st = "canceled"

\* the jobs registered under this name, in the queue or out of it
Named(js, name) == {j \in 1..Len(js) : js[j].name = name}

\* C3: a timed command with a delay of n minutes, n a positive integer, and a text
\* registers exactly one job, of delay n*60 seconds, named with the id of the memo it
\* creates, which is the string form of the id of the message it displays;
\* remove_reminder with that name while the job is in the queue returns true and the job
\* never fires afterwards; remove_reminder with that name once more returns false.
C3_TimedJob ==
    /\ [][\A args \in SchedArgLists :
            (/\ timed(args)
             /\ Len(args) >= 2
             /\ ParseInt(args[1]).ok
             /\ ParseInt(args[1]).val > 0)
            => /\ Len(jobs') = Len(jobs) + 1
               /\ Len(memoObj') = Len(memoObj) + 1
               /\ Len(msgs') = Len(msgs) + 1
               /\ jobs'[Len(jobs')].st = "scheduled"
               /\ jobs'[Len(jobs')].due = ParseInt(args[1]).val * 60
               /\ jobs'[Len(jobs')].name = memoObj'[Len(memoObj')].id
               /\ jobs'[Len(jobs')].name = Str(FirstMsgId + Len(msgs') - 1)
               /\ Cardinality(Named(jobs', jobs'[Len(jobs')].name)) = 1]_vars
    /\ [](\A j \in 1..Len(jobs) :
            /\ jobs[j].st = "scheduled"
               => /\ remove_reminder(jobs, jobs[j].name).ret = TRUE
                  /\ remove_reminder(jobs, jobs[j].name).jobs[j].st = "canceled"
            /\ jobs[j].st = "canceled"
               => /\ remove_reminder(jobs, jobs[j].name).ret = FALSE
                  /\ remove_reminder(jobs, jobs[j].name).jobs = jobs)
    /\ [][\A j \in 1..Len(jobs) :
            jobs[j].st = "canceled" => jobs'[j].st = "canceled" /\ jobs'[j].pc = "wait"]_vars

\* a job of a two-minute reminder canceled in the queue: its callback never began, and
\* its memo is still in the list
C3_Witness ==
    \E j \in 1..Len(jobs) :
        /\ jobs[j].st = "canceled"
        /\ jobs[j].pc = "wait"
        /\ jobs[j].due = 120
        /\ \E k \in 1..Len(lists[jobs[j].context.memos]) :
              memoObj[lists[jobs[j].context.memos][k]].id = jobs[j].name

\* C4: when the reminder callback runs and the memo of its message id is no longer in
\* the list its job refers to, the callback raises no error and sends no message.
C4_FireNoOp ==
    \A j \in 1..Len(jobs) :
        (/\ jobs[j].pc # "wait"
         /\ jobs[j].memo = 0
         /\ \A k \in 1..Len(lists[jobs[j].context.memos]) :
               ~(jobs[j].context.message_id
                    \in Displays(lists[jobs[j].context.memos][k])))
        => jobs[j].exc = "none" /\ jobs[j].message = 0

\* C5: when complete ends for a memo with several messages, by a return or by the
\* exception of an edit, every edit but the one that raised was attempted (the loop was
\* at the last message or past it), the memo is out of the list and no job named with
\* its id is left in the queue.
C5_EditFailure ==
    [][(/\ handler.op = "complete"
        /\ handler'.pc = "idle"
        /\ Len(memoObj[handler.memo].messages) >= 2) =>
        LET h == handler.memo
        IN  /\ handler.pc = "complete_edit"
               => handler.i + 1 >= Len(memoObj[h].messages)
            /\ ~InList(lists'[chat_data.memos], h)
            /\ \A j \in 1..Len(jobs') :
                  jobs'[j].name = memoObj[h].id => jobs'[j].st # "scheduled"]_vars

\* C6: a job goes from the queue to exactly one of fired and canceled and stays there:
\* its timer triggers the callback at most once; while the timers run on, a job in the
\* queue is in the end fired or canceled; complete, when it finishes before the timer
\* has triggered, leaves the job canceled; and remove_reminder for a job that has fired
\* or is canceled changes nothing.
C6_JobLifecycle ==
    /\ [][\A j \in 1..Len(jobs) :
            /\ jobs[j].st \in {"scheduled", "fired", "canceled"}
            /\ jobs[j].st \in {"fired", "canceled"} => jobs'[j].st = jobs[j].st
            /\ trigger(j) => jobs'[j].st = "fired"
            /\ (jobs[j].pc # "wait" /\ jobs'[j].pc = "get") => jobs[j].pc = "get"]_vars
    /\ [][complete_cancel =>
            \A j \in Named(jobs, memoObj[handler.memo].id) :
                jobs[j].st = "scheduled" => jobs'[j].st = "canceled" /\ jobs'[j].pc = "wait"]_vars
    /\ [](\A j \in 1..Len(jobs) :
            jobs[j].st \in {"fired", "canceled"}
            => remove_reminder(jobs, jobs[j].name).jobs = jobs)
    /\ \A j \in 1..MaxJobs :
            (j <= Len(jobs) /\ jobs[j].st = "scheduled")
            ~> (j <= Len(jobs) /\ jobs[j].st \in {"fired", "canceled"})

\* one job fired, its callback done, and another canceled by complete
C6_Witness ==
    /\ \E j \in 1..Len(jobs) : jobs[j].st = "fired" /\ jobs[j].pc = "done"
    /\ \E j \in 1..Len(jobs) :
          /\ jobs[j].st = "canceled"
          /\ \E h \in 1..Len(memoObj) :
                /\ memoObj[h].id = jobs[j].name
                /\ ~InList(lists[jobs[j].context.memos], h)

\* no memo of the list ms records message id m
Absent(ms, m) == \A k \in 1..Len(ms) : m \notin Displays(ms[k])

\* C7: after any sequence of add_memo, remove, get, update and indexed reads on one
\* MemoList, its length is the number of add_memo calls less the number of remove
\* calls that returned.
C7_Size ==
    len(TheList) = count[chat_data.memos].add - count[chat_data.memos].remove

\* both memos added have been removed, one of them after an update
C7_Witness ==
    /\ count[chat_data.memos].add = 2
    /\ count[chat_data.memos].remove = 2
    /\ \E h \in 1..Len(memoObj) : Len(memoObj[h].messages) >= 2

\* C8 as stated: for every list, message id m and text t, get(m) right after
\* add_memo(m, t) returns a memo of text t and id str(m), the id add_memo returned.
C8_GetAfterAdd ==
    [][\A m \in ApiIds, t \in ApiTexts :
          ApiAddMemo(m, t) =>
              LET r == get(lists'[chat_data.memos], memoObj', m)
              IN  /\ r.exc = "none"
                  /\ memoObj'[r.val].text = t
                  /\ memoObj'[r.val].id = Str(m)
                  /\ add_memo(TheList, memoObj, m, t).ret = memoObj'[r.val].id]_vars

\* C8, amended: for every list in which no memo records m, and every text t, get(m)
\* right after add_memo(m, t) returns a memo of text t and id str(m), the id add_memo
\* returned.
C8_GetAfterAddFresh ==
    [][\A m \in ApiIds, t \in ApiTexts :
          (ApiAddMemo(m, t) /\ Absent(TheList, m)) =>
              LET r == get(lists'[chat_data.memos], memoObj', m)
              IN  /\ r.exc = "none"
                  /\ memoObj'[r.val].text = t
                  /\ memoObj'[r.val].id = Str(m)
                  /\ add_memo(TheList, memoObj, m, t).ret = memoObj'[r.val].id]_vars

\* a memo added, with an id no memo recorded, to a list that had a memo of another text
C8_Witness ==
    /\ Len(TheList) = 2
    /\ Len(memoObj[TheList[2]].messages) = 1
    /\ memoObj[TheList[2]].messages[1] \notin Displays(TheList[1])
    /\ memoObj[TheList[2]].text # memoObj[TheList[1]].text

\* no message id is recorded by two memos of the list ms
Unique(ms) ==
    \A a, b \in 1..Len(ms) : a # b => Displays(ms[a]) \cap Displays(ms[b]) = {}

\* C9 as stated: after update(m2) on a memo that is in the list, get(m2) returns that
\* memo, get of each id it recorded before still returns it, and its id is still the
\* string form of its first message id.
C9_GetAfterUpdate ==
    [][\A h \in 1..MaxMemos, m2 \in ApiIds :
          (ApiUpdate(h, m2) /\ InList(TheList, h)) =>
              /\ get(lists'[chat_data.memos], memoObj', m2) = [exc |-> "none", val |-> h]
              /\ \A e \in Displays(h) :
                    get(lists'[chat_data.memos], memoObj', e) = [exc |-> "none", val |-> h]
              /\ memoObj'[h].id = Str(memoObj'[h].messages[1])]_vars

\* C9, amended: after update(m2) on a memo that is in a list where no message id is
\* recorded by two memos, with m2 recorded by no other memo of the list, get(m2) returns
\* that memo, get of each id it recorded before still returns it, and its id is still
\* the string form of its first message id.
C9_GetAfterUpdateUnique ==
    [][\A h \in 1..MaxMemos, m2 \in ApiIds :
          (/\ ApiUpdate(h, m2)
           /\ InList(TheList, h)
           /\ Unique(TheList)
           /\ \A k \in 1..Len(TheList) : TheList[k] # h => m2 \notin Displays(TheList[k])) =>
              /\ get(lists'[chat_data.memos], memoObj', m2) = [exc |-> "none", val |-> h]
              /\ \A e \in Displays(h) :
                    get(lists'[chat_data.memos], memoObj', e) = [exc |-> "none", val |-> h]
              /\ memoObj'[h].id = Str(memoObj'[h].messages[1])]_vars

\* the second memo of a list of two has been updated with an id neither recorded
C9_Witness ==
    /\ Len(TheList) = 2
    /\ Unique(TheList)
    /\ Len(memoObj[TheList[2]].messages) = 2
    /\ memoObj[TheList[2]].messages[1] # memoObj[TheList[2]].messages[2]

\* C10: when the list is empty or no memo of it records m (m was never added, or its
\* memo has been removed), get(m) and remove(m) raise IndexError, and the list and
\* its memos are as they were.
C10_NotFound ==
    /\ [](\A m \in ApiIds :
            Absent(TheList, m)
            => /\ get(TheList, memoObj, m).exc = "IndexError"
               /\ remove(TheList, memoObj, m).exc = "IndexError"
               /\ remove(TheList, memoObj, m).val = TheList)
    /\ [][\A m \in ApiIds :
            ((ApiRemove(m) \/ ApiGet(m)) /\ Absent(TheList, m))
            => UNCHANGED <<lists, memoObj>>]_vars

\* a list with a memo in it, and a removed memo whose message id no memo of the list
\* records
C10_Witness ==
    /\ Len(TheList) >= 1
    /\ \E h \in 1..Len(memoObj) :
          /\ ~InList(TheList, h)
          /\ \E m \in Displays(h) : Absent(TheList, m)

\* no memo of the conversation matches message id m: the conversation has no MemoList,
\* or no memo of its list records m
NoMatch(m) == ~chat_data.has \/ Absent(lists[chat_data.memos], m)

\* C11: complete triggered by a message id that matches no memo of the conversation (an
\* id never added, the id of a memo already completed, or a conversation with no
\* MemoList yet) fails with IndexError (NotFound), and strikes no message, removes no
\* memo and cancels no job.
C11_CompleteNotFound ==
    /\ [](\A m \in PressIds :
            NoMatch(m)
            => complete_get(chat_data, lists, memoObj, m).exc = "IndexError")
    /\ [][\A m \in PressIds :
            (complete(m) /\ NoMatch(m))
            => UNCHANGED <<memoObj, lists, msgs, jobs, count>> /\ handler'.pc = "idle"]_vars

\* C12: a timed command with fewer than two arguments ends in the corrective reply and
\* returns: no memo is constructed, no message with a button is sent, the memos of
\* every list are as they were (a conversation without a list gets its empty one) and
\* no job is registered.
C12_TooFewArgs ==
    [][\A args \in SchedArgLists :
          (Len(args) < 2 /\ timed(args))
          => /\ timed_check(args) = "usage"
             /\ handler'.pc = "idle"
             /\ UNCHANGED <<memoObj, msgs, jobs>>
             /\ chat_data'.has
             /\ Len(lists'[chat_data'.memos]) =
                   IF chat_data.has THEN Len(lists[chat_data.memos]) ELSE 0
             /\ \A l \in 1..Len(lists) : lists'[l] = lists[l]]_vars

\* the state a /timed command with too few arguments leaves a new conversation in: its
\* list constructed and empty, no memo, no message and no job
C12_Witness ==
    /\ chat_data.has
    /\ Len(lists) = 1
    /\ lists[1] = <<>>
    /\ memoObj = <<>>
    /\ msgs = <<>>
    /\ jobs = <<>>

\* the argument lists of two arguments or more whose first is not a number, or is zero
\* or negative
BadDelayArgs ==
    {args \in SchedArgLists :
        Len(args) >= 2 /\ (~ParseInt(args[1]).ok \/ ParseInt(args[1]).val <= 0)}

\* the argument lists of two arguments or more whose first is a positive integer
PositiveDelayArgs ==
    {args \in SchedArgLists :
        Len(args) >= 2 /\ ParseInt(args[1]).ok /\ ParseInt(args[1]).val > 0}

\* C13: a timed command of two arguments or more whose delay is zero, negative or not
\* a number ends in a corrective reply and returns, with no memo constructed and no
\* job registered; a timed command that constructs a memo or registers a job has a
\* delay that is a positive integer.
C13_BadDelay ==
    /\ [][\A args \in BadDelayArgs :
            timed(args)
            => /\ timed_check(args) \in {"usage", "past"}
               /\ ParseInt(args[1]).ok => timed_check(args) = "past"
               /\ handler'.pc = "idle"
               /\ UNCHANGED <<memoObj, msgs, jobs>>
               /\ \A l \in 1..Len(lists) : lists'[l] = lists[l]]_vars
    /\ [][\A args \in SchedArgLists :
            ((memoObj' # memoObj \/ jobs' # jobs) /\ timed(args))
            => /\ args \in PositiveDelayArgs
               /\ Len(memoObj') = Len(memoObj) + 1
               /\ Len(jobs') = Len(jobs) + 1]_vars

\* two timed memos and their jobs, made by commands of delays 2 and 10, in a list that a
\* rejected command constructed
C13_Witness ==
    /\ Len(jobs) = 2
    /\ {jobs[1].due, jobs[2].due} = {120, 600}
    /\ Len(memoObj) = 2
    /\ memoObj[1].id = jobs[1].name
    /\ memoObj[2].id = jobs[2].name

\* the Memo object h has no reminder in the queue: no job was ever registered under its
\* id (a memo made by add), or every such job has fired or is canceled
NoPending(h) == \A j \in Named(jobs, memoObj[h].id) : jobs[j].st \in {"fired", "canceled"}

\* C14: remove_reminder called with the id of a memo that has no reminder in the queue
\* (a memo made by add, or a timed memo whose job has fired or is canceled) returns
\* False and leaves the job queue as it was; complete of such a memo runs to its end.
C14_CancelNothing ==
    /\ [](\A h \in 1..Len(memoObj) :
            NoPending(h)
            => /\ remove_reminder(jobs, memoObj[h].id).ret = FALSE
               /\ remove_reminder(jobs, memoObj[h].id).jobs = jobs)
    /\ [][(complete_cancel /\ NoPending(handler.memo))
            => /\ jobs' = jobs
               /\ handler'.pc = "idle"
               /\ ~InList(lists'[chat_data'.memos], handler.memo)]_vars

\* a memo made by add and a timed memo whose job had fired have both been completed
C14_Witness ==
    /\ handler.pc = "idle"
    /\ chat_data.has
    /\ \E h \in 1..Len(memoObj) :
          /\ Named(jobs, memoObj[h].id) = {}
          /\ ~InList(lists[chat_data.memos], h)
          /\ \A m \in Displays(h) : Msg(m).struck
    /\ \E h \in 1..Len(memoObj) :
          /\ \E j \in Named(jobs, memoObj[h].id) : jobs[j].st = "fired"
          /\ ~InList(lists[chat_data.memos], h)
          /\ \A m \in Displays(h) : Msg(m).struck

\* C15: when the reminder callback finds its memo in the list its job refers to, it
\* sends exactly one new message, of the memo's text, and appends that message's id to
\* the memo's messages; the lists, the memo's id and every other memo are as they were;
\* and, once the callback has returned, with the memo still in that list, complete
\* triggered by the new message's id resolves to that memo and removes it.
C15_FireEffect ==
    /\ [][\A j \in 1..Len(jobs) :
            /\ remind_send(j)
               => /\ Len(msgs') = Len(msgs) + 1
                  /\ msgs'[Len(msgs')].text = memoObj[jobs[j].memo].text
                  /\ \A k \in 1..Len(msgs) : msgs'[k] = msgs[k]
                  /\ UNCHANGED <<memoObj, lists>>
            /\ remind_update(j)
               => /\ memoObj'[jobs[j].memo].messages =
                        Append(memoObj[jobs[j].memo].messages, jobs[j].message)
                  /\ memoObj'[jobs[j].memo].id = memoObj[jobs[j].memo].id
                  /\ memoObj'[jobs[j].memo].text = memoObj[jobs[j].memo].text
                  /\ \A h \in 1..Len(memoObj) : h # jobs[j].memo => memoObj'[h] = memoObj[h]
                  /\ UNCHANGED <<msgs, lists>>]_vars
    /\ [](\A j \in 1..Len(jobs) :
            (jobs[j].pc = "done" /\ InList(lists[jobs[j].context.memos], jobs[j].memo))
            => /\ complete_get(chat_data, lists, memoObj, jobs[j].message)
                    = [exc |-> "none", val |-> jobs[j].memo]
               /\ ~InList(remove(lists[chat_data.memos], memoObj, jobs[j].message).val,
                          jobs[j].memo))

\* C16: under any interleaving of the steps of the reminder callback with the steps of
\* complete on the same memo, once both have finished (the callback has returned, the
\* memo is out of its list and the dispatcher is idle) every message that displays the
\* memo is struck through.
C16_AllStruck ==
    \A j \in 1..Len(jobs) :
        (/\ jobs[j].pc = "done"
         /\ handler.pc = "idle"
         /\ ~InList(lists[jobs[j].context.memos], jobs[j].memo))
        => \A m \in Displays(jobs[j].memo) : Msg(m).struck

\* C17: in every state, every job in the queue has the name of the id of a memo that
\* is in the conversation's current MemoList, and the MemoList its context refers to is
\* the conversation's current one.
C17_JobsCurrent ==
    \A j \in 1..Len(jobs) :
        jobs[j].st = "scheduled"
        => /\ chat_data.has
           /\ jobs[j].context.memos = chat_data.memos
           /\ \E k \in 1..Len(lists[chat_data.memos]) :
                 memoObj[lists[chat_data.memos][k]].id = jobs[j].name

C19_MemoStable ==
    /\ [](\A h \in 1..Len(memoObj) :
            /\ Len(memoObj[h].messages) >= 1
            /\ memoObj[h].id = Str(memoObj[h].messages[1]))
    /\ [][\A h \in 1..Len(memoObj) :
            /\ memoObj'[h].id = memoObj[h].id
            /\ memoObj'[h].text = memoObj[h].text
            /\ Len(memoObj'[h].messages) >= Len(memoObj[h].messages)
            /\ SubSeq(memoObj'[h].messages, 1, Len(memoObj[h].messages)) = memoObj[h].messages]_vars

\* a memo that has been displayed three times
C19_Witness ==
    \E h \in 1..Len(memoObj) :
        /\ Len(memoObj[h].messages) = 3
        /\ memoObj[h].id = Str(memoObj[h].messages[1])

\* C20: list_memo on a list of k > 0 memos runs its loop once for each memo, in list
\* order, and ends after the k-th; each turn sends one new message, of that memo's text,
\* and appends its id to that memo's messages and to no other, so that every memo gains
\* one message id; the lists, the memos' ids and texts and the jobs are as they were.
\* On an empty list it changes no memo and constructs none.
C20_ListMemo ==
    /\ [][list_memo =>
            /\ UNCHANGED <<memoObj, msgs, jobs>>
            /\ \A l \in 1..Len(lists) : lists'[l] = lists[l]
            /\ handler'.pc = "idle" <=> Len(lists'[chat_data'.memos]) = 0
            /\ handler'.pc # "idle" => handler'.i = 0 /\ handler'.memos = chat_data'.memos]_vars
    /\ [][list_send(MaxView) =>
            /\ UNCHANGED <<memoObj, lists, jobs>>
            /\ handler'.pc = "idle" <=> handler.i = Len(lists[handler.memos])
            /\ handler'.pc = "idle" => msgs' = msgs
            /\ handler'.pc # "idle"
               => /\ handler.i < Len(lists[handler.memos])
                  /\ handler'.memo = lists[handler.memos][handler.i + 1]
                  /\ Len(msgs') = Len(msgs) + 1
                  /\ msgs'[Len(msgs')].text = memoObj[handler'.memo].text
                  /\ handler'.message = FirstMsgId + Len(msgs') - 1
                  /\ \A h \in 1..Len(memoObj) : handler'.message \notin Displays(h)]_vars
    /\ [][list_update =>
            /\ UNCHANGED <<msgs, lists, jobs>>
            /\ memoObj'[handler.memo] =
                  [memoObj[handler.memo] EXCEPT !.messages = Append(@, handler.message)]
            /\ \A h \in 1..Len(memoObj) : h # handler.memo => memoObj'[h] = memoObj[h]
            /\ handler'.i = handler.i + 1]_vars

\* list_memo has shown a list of two memos: each has the id of its first message and of
\* the message list_memo sent for it, in list order
C20_Witness ==
    /\ handler.pc = "idle"
    /\ chat_data.has
    /\ Len(lists[chat_data.memos]) = 2
    /\ memoObj[lists[chat_data.memos][1]].messages = <<FirstMsgId, FirstMsgId + 2>>
    /\ memoObj[lists[chat_data.memos][2]].messages = <<FirstMsgId + 1, FirstMsgId + 3>>
    /\ \E j \in 1..Len(jobs) : jobs[j].st = "scheduled"
====
